---- MODULE Spec2Model ----
(***************************************************************************)
(* Model of src/app.py, the Blinkit Ads decision engine: main() reads the   *)
(* uploaded reports, consolidates and cleans them into master_df, builds    *)
(* the campaign option list, and fills the five tabs (daily pivot, weekly   *)
(* trend, performance, waste audit, bidding) before the export.             *)
(*                                                                         *)
(* Numbers are held in thousandths (1.4 is 1400), so that round(2) has     *)
(* something to round.  A cell of a DataFrame is NaN, a string or a number. *)
(***************************************************************************)
EXTENDS Integers, Sequences, FiniteSets, TLC

VARIABLES
    uploaded_files,        \* st.file_uploader: the files of this run
    perf_roas_threshold,   \* sidebar slider
    bid_roas_threshold,    \* sidebar slider
    min_spend_waste,       \* sidebar number input
    search_query,          \* sidebar text input
    scores,                \* the score thefuzz gives each campaign name for search_query
    pc,                    \* position of main() in the script
    fi,                    \* index of the next file of the reading loop
    all_dfs,               \* frames read so far
    diagnostics,           \* files reported by st.error, in order
    master_df,             \* the consolidated frame
    campaign_options,      \* options of the campaign selectbox
    selected_campaign,     \* the option chosen
    plot_df,               \* master_df, filtered to the selected campaign
    pivot_df,              \* Daily Tracker matrix
    weekly,                \* Weekly Trends rows
    summary,               \* Performance: aggregated groups
    healthy,               \* Performance: first table
    below,                 \* Performance: second table
    waste,                 \* Waste Audit table
    bids_opt,              \* Bidding table
    exported,              \* frame written to the download
    produced,              \* names of the results produced so far
    error                  \* exception that ended the run, "" if none

vars == <<uploaded_files, perf_roas_threshold, bid_roas_threshold, min_spend_waste,
          search_query, scores, pc, fi, all_dfs, diagnostics, master_df,
          campaign_options, selected_campaign, plot_df, pivot_df, weekly, summary,
          healthy, below, waste, bids_opt, exported, produced, error>>

inputs == <<uploaded_files, perf_roas_threshold, bid_roas_threshold, min_spend_waste,
            search_query, scores>>

-----------------------------------------------------------------------------
(* Cell values *)

NaN == [k |-> "nan", s |-> "", n |-> 0]
Str(x) == [k |-> "str", s |-> x, n |-> 0]
Num(x) == [k |-> "num", s |-> "", n |-> x]

IsNull(v) == v.k = "nan"

\* Python's str ordering (code points) on the strings the model sorts.
PyOrder ==
    << "2024-03-01", "2024-03-02", "2024-03-03", "2024-03-04",
       "A1", "C1", "C2", "CPM", "Cat1", "Impressions", "K1", "K2",
       "Most Viewed Position", "N/A",
       "Promo01", "Promo02", "Promo03", "Promo04", "Promo05", "Promo06",
       "Promo07", "Promo08", "Promo09", "Promo10", "Promo11", "Promo12",
       "Promo13" >>

StrOrd(s) == CHOOSE i \in 1..Len(PyOrder) : PyOrder[i] = s

StrLess(a, b) == StrOrd(a) < StrOrd(b)

\* Lexicographic order of labels (tuples of strings of one length).
TupleLess(a, b) ==
    \E i \in 1..Len(a) : StrLess(a[i], b[i]) /\ \A j \in 1..(i - 1) : a[j] = b[j]

\* A label of two levels as one number that orders as the label does.
LabelKey(a) == StrOrd(a[1]) * (Len(PyOrder) + 1) + StrOrd(a[2])

\* A stable sort by ascending key, key[i] the key of s[i]: an element goes
\* after those of a smaller key, and after those of its key that came
\* before it.
SortByKey(s, key) ==
    LET n == Len(s)
        before(i) == Cardinality({j \in 1..n :
                        key[j] < key[i] \/ (key[j] = key[i] /\ j < i)})
    IN  [p \in 1..n |-> s[CHOOSE i \in 1..n : before(i) = p - 1]]

\* The labels of a set in ascending order.
SortedLabels(S) ==
    [p \in 1..Cardinality(S) |->
        CHOOSE x \in S : Cardinality({y \in S : TupleLess(y, x)}) = p - 1]

\* The strings of a set in ascending order.
SortedStrings(S) ==
    [p \in 1..Cardinality(S) |->
        CHOOSE x \in S : Cardinality({y \in S : StrLess(y, x)}) = p - 1]

SeqToSet(s) == {s[i] : i \in 1..Len(s)}

\* n / b rounded to the nearest integer, halves to the even neighbour
\* (n >= 0, b > 0).
RoundHalfEven(n, b) ==
    LET q  == n \div b
        r2 == 2 * (n % b)
    IN  IF r2 > b \/ (r2 = b /\ q % 2 = 1) THEN q + 1 ELSE q

\* Series.round(2) on a value held in thousandths.
Round2(x) == 10 * RoundHalfEven(x, 10)

-----------------------------------------------------------------------------
(* DataFrames: a set of column names and a sequence of rows, each row a    *)
(* function from the columns to cell values.                                *)

EmptyFrame == [cols |-> {}, rows |-> <<>>]

RECURSIVE RowsOf(_)
RowsOf(dfs) ==
    IF dfs = <<>> THEN <<>> ELSE Head(dfs).rows \o RowsOf(Tail(dfs))

\* pd.concat(all_dfs, ignore_index=True, sort=False): the union of the
\* columns, the rows in order, NaN where a frame lacks a column.
Concat(dfs) ==
    LET cols == UNION {dfs[i].cols : i \in 1..Len(dfs)}
        raw  == RowsOf(dfs)
    IN  [cols |-> cols,
         rows |-> [i \in 1..Len(raw) |->
                     [c \in cols |-> IF c \in DOMAIN raw[i] THEN raw[i][c] ELSE NaN]]]

\* str.strip() of a column name.
StripName(c) == IF c = " date_ist " THEN "date_ist" ELSE c

\* Two columns carry the same name once stripped.
DuplicateColumns(df) ==
    \E c1, c2 \in df.cols : c1 # c2 /\ StripName(c1) = StripName(c2)

\* master_df.columns = master_df.columns.str.strip()
StripColumns(df) ==
    LET cols == {StripName(c) : c \in df.cols}
        src(c) == CHOOSE r \in df.cols : StripName(r) = c
    IN  [cols |-> cols,
         rows |-> [i \in 1..Len(df.rows) |-> [c \in cols |-> df.rows[i][src(c)]]]]

\* df[name] = vals
SetColumn(df, name, vals) ==
    [cols |-> df.cols \cup {name},
     rows |-> [i \in 1..Len(df.rows) |->
                 [c \in df.cols \cup {name} |->
                     IF c = name THEN vals[i] ELSE df.rows[i][c]]]]

Column(df, name) == [i \in 1..Len(df.rows) |-> df.rows[i][name]]

-----------------------------------------------------------------------------
(* Cleaning *)

\* Mapping Target Identifiers: the first of the three columns the
\* consolidated frame has is copied to Target; "N/A" when it has none.
TargetSource(df) ==
    IF "Keyword" \in df.cols THEN "Keyword"
    ELSE IF "Category Name" \in df.cols THEN "Category Name"
    ELSE IF "Asset" \in df.cols THEN "Asset"
    ELSE ""

MapTarget(df) ==
    LET src == TargetSource(df)
    IN  SetColumn(df, "Target",
            [i \in 1..Len(df.rows) |->
                IF src = "" THEN Str("N/A") ELSE df.rows[i][src]])

\* Dates the reports carry, as day of March 2024.
DateLiterals == {"2024-03-01", "2024-03-02", "2024-03-03", "2024-03-04"}

DateOrdinal(s) ==
    CASE s = "2024-03-01" -> 1
      [] s = "2024-03-02" -> 2
      [] s = "2024-03-03" -> 3
      [] s = "2024-03-04" -> 4

\* pd.to_datetime of one value can be parsed.
DateParses(v) == IsNull(v) \/ (v.k = "str" /\ v.s \in DateLiterals)

\* pd.to_datetime of one value: NaT for a missing value.
ToDatetime(v) == IF IsNull(v) THEN NaN ELSE Num(DateOrdinal(v.s))

day_order == <<"Monday", "Tuesday", "Wednesday", "Thursday", "Friday", "Saturday", "Sunday">>

\* .dt.day_name(): 2024-03-01 is a Friday.
DayName(t) == IF IsNull(t) THEN NaN ELSE Str(day_order[((t.n + 3) % 7) + 1])

\* .dt.strftime('%Y-%m-%d')
Strftime(t) ==
    IF IsNull(t) THEN NaN
    ELSE Str(<<"2024-03-01", "2024-03-02", "2024-03-03", "2024-03-04">>[t.n])

ConvertDates(df) ==
    LET t  == [i \in 1..Len(df.rows) |-> ToDatetime(df.rows[i]["date_ist"])]
        d1 == SetColumn(df, "date_ist", t)
        d2 == SetColumn(d1, "Day of Week", [i \in 1..Len(df.rows) |-> DayName(t[i])])
    IN  SetColumn(d2, "date_str", [i \in 1..Len(df.rows) |-> Strftime(t[i])])

numeric_cols == <<"Direct Sales", "Estimated Budget Consumed", "CPM", "Direct RoAS",
                  "Impressions", "Most Viewed Position">>

\* Text cells that read as numbers, with their value in thousandths.
NumLiteral(s) ==
    CASE s = "12.344" -> 12344
      [] s = "7" -> 7000
      [] OTHER -> -1

\* pd.to_numeric(errors='coerce') of one value.
ToNumeric(v) ==
    IF v.k = "num" THEN v
    ELSE IF v.k = "str" /\ NumLiteral(v.s) >= 0 THEN Num(NumLiteral(v.s))
    ELSE NaN

FillNa0(v) == IF IsNull(v) THEN Num(0) ELSE v

\* The coercion without its fillna(0).
CoerceNumericNoFill(v) ==
    IF IsNull(ToNumeric(v)) THEN NaN ELSE Num(Round2(ToNumeric(v).n))

\* pd.to_numeric(col, errors='coerce').fillna(0).round(2) of one value.
CoerceNumeric(v) == Num(Round2(FillNa0(ToNumeric(v)).n))

RECURSIVE ConvertNumeric(_, _)
ConvertNumeric(df, cols) ==
    IF cols = <<>> THEN df
    ELSE LET c == Head(cols)
             d == IF c \in df.cols
                  THEN SetColumn(df, c,
                          [i \in 1..Len(df.rows) |-> CoerceNumeric(df.rows[i][c])])
                  ELSE df
         IN  ConvertNumeric(d, Tail(cols))

-----------------------------------------------------------------------------
(* groupby *)

HasKeys(r, keys) == \A i \in 1..Len(keys) : ~IsNull(r[keys[i]])

KeyOf(r, keys) == [i \in 1..Len(keys) |-> r[keys[i]].s]

\* The group labels of df.groupby(keys), in sorted order; rows with a
\* missing key belong to no group (dropna=True).
GroupKeySet(df, keys) ==
    {KeyOf(df.rows[i], keys) : i \in {j \in 1..Len(df.rows) : HasKeys(df.rows[j], keys)}}

GroupKeys(df, keys) == SortedLabels(GroupKeySet(df, keys))

GroupRows(df, keys, kt) ==
    SelectSeq(df.rows, LAMBDA r : HasKeys(r, keys) /\ KeyOf(r, keys) = kt)

RECURSIVE SumOf(_, _)
SumOf(rows, c) ==
    IF rows = <<>> THEN 0 ELSE Head(rows)[c].n + SumOf(Tail(rows), c)

\* mean of a column over the rows of a group, rounded to 2 decimals
MeanRound2(rows, c) == 10 * RoundHalfEven(SumOf(rows, c), 10 * Len(rows))

\* (sales / spend.replace(0, 1)).round(2)
Roas(sales, spend) ==
    10 * RoundHalfEven(100 * sales, IF spend = 0 THEN 1000 ELSE spend)

-----------------------------------------------------------------------------
(* Daily Tracker *)

pivot_metrics == <<"Most Viewed Position", "CPM", "Impressions">>

EmptyPivot == [index |-> <<>>, columns |-> <<>>, cell |-> <<>>]

\* aggfunc='mean'
AggMean(rows, c) ==
    IF rows = <<>> THEN NaN ELSE Num(SumOf(rows, c) \div Len(rows))

\* aggfunc='first': the first value of the group that is not null
AggFirst(rows, c) ==
    LET nn == SelectSeq(rows, LAMBDA r : ~IsNull(r[c]))
    IN  IF nn = <<>> THEN NaN ELSE Head(nn)[c]

RoundCell(v) == IF v.k = "num" THEN Num(Round2(v.n)) ELSE v

\* df.pivot_table(index=index, columns=columns, values=values,
\*                aggfunc='first').round(2)
\* Columns are labelled (value, column key) and sorted; a column with no
\* value at all is dropped; a cell with no record is NaN.
PivotTable(df, index, columns, values) ==
    LET keys == index \o <<columns>>
        gk   == GroupKeySet(df, keys)
        n    == Len(index)
        rset == {SubSeq(k, 1, n) : k \in gk}
        dset == {k[n + 1] : k \in gk}
        agg(rl, cl) ==
            IF rl \o <<cl[2]>> \in gk
            THEN RoundCell(AggFirst(GroupRows(df, keys, rl \o <<cl[2]>>), cl[1]))
            ELSE NaN
        cset == {cl \in SeqToSet(values) \X dset : \E rl \in rset : ~IsNull(agg(rl, cl))}
    IN  [index   |-> SortedLabels(rset),
         columns |-> SortedLabels(cset),
         cell    |-> [x \in rset \X cset |-> agg(x[1], x[2])]]

\* pivot_df.reorder_levels([1, 0], axis=1)
ReorderLevels(p) ==
    LET swap(cl) == <<cl[2], cl[1]>>
        cset == {swap(p.columns[i]) : i \in 1..Len(p.columns)}
    IN  [index   |-> p.index,
         columns |-> [i \in 1..Len(p.columns) |-> swap(p.columns[i])],
         cell    |-> [x \in SeqToSet(p.index) \X cset |-> p.cell[<<x[1], swap(x[2])>>]]]

\* The matrix with its columns left as reorder_levels gives them.
SortIndexColumnsSkipped(p) == p

\* .sort_index(axis=1)
SortIndexColumns(p) ==
    [index   |-> p.index,
     columns |-> SortByKey(p.columns, [i \in 1..Len(p.columns) |-> LabelKey(p.columns[i])]),
     cell    |-> p.cell]

DailyPivot(df) ==
    SortIndexColumns(ReorderLevels(
        PivotTable(df, <<"Campaign Name", "Target">>, "date_str", pivot_metrics)))

-----------------------------------------------------------------------------
(* Weekly Trends *)

WeeklyTrend(df) ==
    [d \in 1..7 |->
        LET rows  == SelectSeq(df.rows, LAMBDA r : r["Day of Week"] = Str(day_order[d]))
            spend == SumOf(rows, "Estimated Budget Consumed")
            sales == SumOf(rows, "Direct Sales")
        IN  [day |-> day_order[d], spend |-> spend, sales |-> sales,
             roas |-> Roas(sales, spend)]]

-----------------------------------------------------------------------------
(* Performance *)

group_keys == <<"Target", "Campaign Name">>

Summary(df) ==
    LET gk == GroupKeys(df, group_keys)
    IN  [g \in 1..Len(gk) |->
            LET rows  == GroupRows(df, group_keys, gk[g])
                spend == SumOf(rows, "Estimated Budget Consumed")
                sales == SumOf(rows, "Direct Sales")
            IN  [target |-> gk[g][1], campaign |-> gk[g][2],
                 sales |-> sales, spend |-> spend, roas |-> Roas(sales, spend)]]

\* summary[summary['ROAS'] >= perf].sort_values('Direct Sales', ascending=False)
Healthy(sm, perf) ==
    LET kept == SelectSeq(sm, LAMBDA g : g.roas >= perf)
    IN  SortByKey(kept, [i \in 1..Len(kept) |-> -kept[i].sales])

\* The second table sorted by spend, descending.
BelowTargetBySpend(sm, perf) ==
    LET kept == SelectSeq(sm, LAMBDA g : g.roas < perf /\ g.roas > 0)
    IN  SortByKey(kept, [i \in 1..Len(kept) |-> -kept[i].spend])

\* The second table with the groups of roas 0 left in.
BelowTargetNoFloor(sm, perf) == SelectSeq(sm, LAMBDA g : g.roas < perf)

\* summary[(summary['ROAS'] < perf) & (summary['ROAS'] > 0)]
BelowTarget(sm, perf) == SelectSeq(sm, LAMBDA g : g.roas < perf /\ g.roas > 0)

-----------------------------------------------------------------------------
(* Waste Audit *)

WasteAudit(df, minSpend) ==
    LET gk == GroupKeys(df, group_keys)
        all == [g \in 1..Len(gk) |->
                  LET rows == GroupRows(df, group_keys, gk[g])
                  IN  [target |-> gk[g][1], campaign |-> gk[g][2],
                       sales |-> SumOf(rows, "Direct Sales"),
                       spend |-> SumOf(rows, "Estimated Budget Consumed"),
                       cpm   |-> MeanRound2(rows, "CPM")]]
        kept == SelectSeq(all, LAMBDA g : g.sales = 0 /\ g.spend > minSpend)
    IN  SortByKey(kept, [i \in 1..Len(kept) |-> -kept[i].spend])

-----------------------------------------------------------------------------
(* Bidding *)

RECURSIVE SumCross(_, _)
\* sum over the groups of csum * (P / cnt), P the product of the counts
SumCross(gs, P) ==
    IF gs = <<>> THEN 0 ELSE Head(gs).csum * (P \div Head(gs).cnt) + SumCross(Tail(gs), P)

RECURSIVE CountProduct(_)
CountProduct(gs) == IF gs = <<>> THEN 1 ELSE Head(gs).cnt * CountProduct(Tail(gs))

\* bids[(bids['Direct RoAS'] >= bid) & (bids['CPM'] > bids['CPM'].mean())].round(2)
\* The means are compared exactly, by cross-multiplication.
BidsOpt(df, bid) ==
    LET gk == GroupKeys(df, group_keys)
        gs == [g \in 1..Len(gk) |->
                  LET rows == GroupRows(df, group_keys, gk[g])
                  IN  [target |-> gk[g][1], campaign |-> gk[g][2],
                       sales |-> SumOf(rows, "Direct Sales"),
                       rsum |-> SumOf(rows, "Direct RoAS"),
                       csum |-> SumOf(rows, "CPM"), cnt |-> Len(rows),
                       roas |-> MeanRound2(rows, "Direct RoAS"),
                       cpm  |-> MeanRound2(rows, "CPM")]]
        P  == CountProduct(gs)
        keep(g) == /\ g.rsum >= bid * g.cnt
                   /\ Len(gs) * g.csum * (P \div g.cnt) > SumCross(gs, P)
        kept == SelectSeq(gs, keep)
    IN  [i \in 1..Len(kept) |->
            [target |-> kept[i].target, campaign |-> kept[i].campaign,
             sales |-> kept[i].sales, roas |-> kept[i].roas, cpm |-> kept[i].cpm]]

-----------------------------------------------------------------------------
(* Search Campaign *)

\* limit=10 of process.extract
match_limit == 10

\* match[1] > 45
score_cutoff == 45

\* sorted(master_df['Campaign Name'].dropna().unique().tolist())
AllCampaigns(df) ==
    SortedStrings({df.rows[i]["Campaign Name"].s :
                      i \in {j \in 1..Len(df.rows) : ~IsNull(df.rows[j]["Campaign Name"])}})

\* process.extract(query, choices, limit): (choice, score) pairs, best
\* score first, equal scores in the order of the choices, at most limit.
Extract(choices, sc, limit) ==
    LET scored == [i \in 1..Len(choices) |-> <<choices[i], sc[choices[i]]>>]
        ranked == SortByKey(scored, [i \in 1..Len(scored) |-> -scored[i][2]])
    IN  SubSeq(ranked, 1, IF Len(ranked) < limit THEN Len(ranked) ELSE limit)

\* The options with the cutoff taken as score >= 45.
CampaignOptionsAtCutoff(df, query, sc) ==
    IF query # ""
    THEN LET matches == Extract(AllCampaigns(df), sc, match_limit)
             shown   == SelectSeq(matches, LAMBDA m : m[2] >= score_cutoff)
         IN  <<"All Campaigns">> \o [i \in 1..Len(shown) |-> shown[i][1]]
    ELSE <<"All Campaigns">> \o AllCampaigns(df)

CampaignOptions(df, query, sc) ==
    IF query # ""
    THEN LET matches == Extract(AllCampaigns(df), sc, match_limit)
             shown   == SelectSeq(matches, LAMBDA m : m[2] > score_cutoff)
         IN  <<"All Campaigns">> \o [i \in 1..Len(shown) |-> shown[i][1]]
    ELSE <<"All Campaigns">> \o AllCampaigns(df)

PlotFrame(df, sel) ==
    IF sel = "All Campaigns" THEN df
    ELSE [cols |-> df.cols,
          rows |-> SelectSeq(df.rows, LAMBDA r : r["Campaign Name"] = Str(sel))]

-----------------------------------------------------------------------------
(* Reading the uploads *)

\* A file: whether its name ends in .xlsx, whether pd.ExcelFile opens it,
\* and for each sheet (one for a csv) whether it parses and the frame.
\* The frames the loop body appends for one file, and whether it ended in
\* the except branch: sheets appended before the failing one stay.
RECURSIVE SheetsBeforeFailure(_)
SheetsBeforeFailure(sheets) ==
    IF sheets = <<>> \/ ~Head(sheets).ok THEN <<>>
    ELSE <<Head(sheets).df>> \o SheetsBeforeFailure(Tail(sheets))

FileFails(f) ==
    IF f.xlsx THEN ~f.opens \/ \E i \in 1..Len(f.sheets) : ~f.sheets[i].ok
    ELSE ~f.sheets[1].ok

FramesRead(f) ==
    IF f.xlsx
    THEN IF f.opens THEN SheetsBeforeFailure(f.sheets) ELSE <<>>
    ELSE IF f.sheets[1].ok THEN <<f.sheets[1].df>> ELSE <<>>

-----------------------------------------------------------------------------
(* main() *)

\* An exception leaves main(): nothing after it runs.
Raise(e) == pc' = "raised" /\ error' = e

\* for file in uploaded_files: one pass of the loop body (try / except)
ReadFile ==
    /\ pc = "read"
    /\ fi <= Len(uploaded_files)
    /\ all_dfs' = all_dfs \o FramesRead(uploaded_files[fi])
    /\ diagnostics' = IF FileFails(uploaded_files[fi])
                      THEN Append(diagnostics, fi) ELSE diagnostics
    /\ fi' = fi + 1
    /\ pc' = IF fi = Len(uploaded_files) THEN "consolidate" ELSE "read"
    /\ UNCHANGED <<inputs, master_df, campaign_options, selected_campaign, plot_df,
                   pivot_df, weekly, summary, healthy, below, waste, bids_opt,
                   exported, produced, error>>

\* The frame after the cleaning steps that run whatever the dates hold.
Cleaned(dfs) == MapTarget(StripColumns(Concat(dfs)))

\* pd.to_datetime raises: a date that does not parse, or two date_ist
\* columns after the strip (a frame, not a column, is converted).
DateConversionRaises(dfs) ==
    LET m == Cleaned(dfs)
    IN  \/ DuplicateColumns(Concat(dfs))
        \/ /\ "date_ist" \in m.cols
           /\ \E i \in 1..Len(m.rows) : ~DateParses(m.rows[i]["date_ist"])

Normalized(dfs) ==
    LET m == Cleaned(dfs)
    IN  ConvertNumeric(IF "date_ist" \in m.cols THEN ConvertDates(m) ELSE m, numeric_cols)

\* if all_dfs: CONSOLIDATION & CLEANING
Consolidate ==
    /\ pc = "consolidate"
    /\ IF all_dfs = <<>>
       THEN pc' = "done" /\ UNCHANGED <<master_df, produced, error>>
       ELSE IF DateConversionRaises(all_dfs)
       THEN Raise("ValueError") /\ UNCHANGED <<master_df, produced>>
       ELSE /\ master_df' = Normalized(all_dfs)
            /\ produced' = produced \cup {"records"}
            /\ pc' = "search"
            /\ UNCHANGED error
    /\ UNCHANGED <<inputs, fi, all_dfs, diagnostics, campaign_options, selected_campaign,
                   plot_df, pivot_df, weekly, summary, healthy, below, waste, bids_opt,
                   exported>>

\* SEARCH CAMPAIGN, the selectbox and plot_df
SearchCampaign ==
    /\ pc = "search"
    /\ IF "Campaign Name" \notin master_df.cols
       THEN /\ Raise("KeyError")
            /\ UNCHANGED <<campaign_options, selected_campaign, plot_df, produced>>
       ELSE /\ campaign_options' = CampaignOptions(master_df, search_query, scores)
            /\ \E sel \in SeqToSet(campaign_options') :
                  /\ selected_campaign' = sel
                  /\ plot_df' = PlotFrame(master_df, sel)
            /\ produced' = produced \cup {"options"}
            /\ pc' = "daily"
            /\ UNCHANGED error
    /\ UNCHANGED <<inputs, fi, all_dfs, diagnostics, master_df, pivot_df, weekly, summary,
                   healthy, below, waste, bids_opt, exported>>

Missing(df, cols) == \E c \in cols : c \notin df.cols

\* with tab_daily
TabDaily ==
    /\ pc = "daily"
    /\ IF Missing(plot_df, {"Campaign Name", "Target", "date_str"} \cup SeqToSet(pivot_metrics))
       THEN Raise("KeyError") /\ UNCHANGED <<pivot_df, produced>>
       ELSE /\ pivot_df' = DailyPivot(plot_df)
            /\ produced' = produced \cup {"pivot"}
            /\ pc' = "trend"
            /\ UNCHANGED error
    /\ UNCHANGED <<inputs, fi, all_dfs, diagnostics, master_df, campaign_options,
                   selected_campaign, plot_df, weekly, summary, healthy, below, waste,
                   bids_opt, exported>>

\* with tab_trend
TabTrend ==
    /\ pc = "trend"
    /\ IF "Day of Week" \notin plot_df.cols
       THEN pc' = "perf" /\ UNCHANGED <<weekly, produced, error>>
       ELSE IF Missing(plot_df, {"Estimated Budget Consumed", "Direct Sales"})
       THEN Raise("KeyError") /\ UNCHANGED <<weekly, produced>>
       ELSE /\ weekly' = WeeklyTrend(plot_df)
            /\ produced' = produced \cup {"weekly"}
            /\ pc' = "perf"
            /\ UNCHANGED error
    /\ UNCHANGED <<inputs, fi, all_dfs, diagnostics, master_df, campaign_options,
                   selected_campaign, plot_df, pivot_df, summary, healthy, below, waste,
                   bids_opt, exported>>

\* with tab_perf
TabPerf ==
    /\ pc = "perf"
    /\ IF Missing(plot_df, {"Target", "Campaign Name", "Direct Sales",
                            "Estimated Budget Consumed"})
       THEN Raise("KeyError") /\ UNCHANGED <<summary, healthy, below, produced>>
       ELSE /\ summary' = Summary(plot_df)
            /\ healthy' = Healthy(summary', perf_roas_threshold)
            /\ below' = BelowTarget(summary', perf_roas_threshold)
            /\ produced' = produced \cup {"perf"}
            /\ pc' = "eff"
            /\ UNCHANGED error
    /\ UNCHANGED <<inputs, fi, all_dfs, diagnostics, master_df, campaign_options,
                   selected_campaign, plot_df, pivot_df, weekly, waste, bids_opt, exported>>

\* with tab_eff
TabEff ==
    /\ pc = "eff"
    /\ IF Missing(plot_df, {"Target", "Campaign Name", "Direct Sales",
                            "Estimated Budget Consumed", "CPM"})
       THEN Raise("KeyError") /\ UNCHANGED <<waste, produced>>
       ELSE /\ waste' = WasteAudit(plot_df, min_spend_waste)
            /\ produced' = produced \cup {"waste"}
            /\ pc' = "bids"
            /\ UNCHANGED error
    /\ UNCHANGED <<inputs, fi, all_dfs, diagnostics, master_df, campaign_options,
                   selected_campaign, plot_df, pivot_df, weekly, summary, healthy, below,
                   bids_opt, exported>>

\* with tab_bids
TabBids ==
    /\ pc = "bids"
    /\ IF Missing(plot_df, {"Target", "Campaign Name", "Direct Sales", "Direct RoAS", "CPM"})
       THEN Raise("KeyError") /\ UNCHANGED <<bids_opt, produced>>
       ELSE /\ bids_opt' = BidsOpt(plot_df, bid_roas_threshold)
            /\ produced' = produced \cup {"bids"}
            /\ pc' = "export"
            /\ UNCHANGED error
    /\ UNCHANGED <<inputs, fi, all_dfs, diagnostics, master_df, campaign_options,
                   selected_campaign, plot_df, pivot_df, weekly, summary, healthy, below,
                   waste, exported>>

\* EXPORT
Export ==
    /\ pc = "export"
    /\ exported' = master_df
    /\ produced' = produced \cup {"export"}
    /\ pc' = "done"
    /\ UNCHANGED <<inputs, fi, all_dfs, diagnostics, master_df, campaign_options,
                   selected_campaign, plot_df, pivot_df, weekly, summary, healthy, below,
                   waste, bids_opt, error>>

Next ==
    \/ ReadFile
    \/ Consolidate
    \/ SearchCampaign
    \/ TabDaily
    \/ TabTrend
    \/ TabPerf
    \/ TabEff
    \/ TabBids
    \/ Export

\* The state of main() when the uploads arrive.
Start ==
    /\ pc = "read"
    /\ fi = 1
    /\ all_dfs = <<>>
    /\ diagnostics = <<>>
    /\ master_df = EmptyFrame
    /\ campaign_options = <<>>
    /\ selected_campaign = ""
    /\ plot_df = EmptyFrame
    /\ pivot_df = EmptyPivot
    /\ weekly = <<>>
    /\ summary = <<>>
    /\ healthy = <<>>
    /\ below = <<>>
    /\ waste = <<>>
    /\ bids_opt = <<>>
    /\ exported = EmptyFrame
    /\ produced = {}
    /\ error = ""

-----------------------------------------------------------------------------
(* The uploads of a run.  A run starts with at least one file: without,   *)
(* main() does nothing.                                                     *)

MaxFiles == 2
MaxRows == 3
MaxCampaigns == 12

Csv(ok, df) == [xlsx |-> FALSE, opens |-> TRUE, sheets |-> <<[ok |-> ok, df |-> df]>>]
Xlsx(opens, sheets) == [xlsx |-> TRUE, opens |-> opens, sheets |-> sheets]
Sheet(df) == [ok |-> TRUE, df |-> df]
BadSheet == [ok |-> FALSE, df |-> EmptyFrame]

metric_set == SeqToSet(numeric_cols)

Row(campaign, target, date, position, cpm, impressions, spend, sales, roas) ==
    [c \in {"Campaign Name", "Keyword", "Category Name", "Asset", "date_ist"} \cup metric_set |->
        CASE c = "Campaign Name" -> campaign
          [] c = "Keyword" -> target[1]
          [] c = "Category Name" -> target[2]
          [] c = "Asset" -> target[3]
          [] c = "date_ist" -> date
          [] c = "Most Viewed Position" -> position
          [] c = "CPM" -> cpm
          [] c = "Impressions" -> impressions
          [] c = "Estimated Budget Consumed" -> spend
          [] c = "Direct Sales" -> sales
          [] c = "Direct RoAS" -> roas]

\* The row as a report with the columns cols holds it.
Restrict(r, cols) == [c \in cols |-> r[StripName(c)]]

Frame(cols, rows) ==
    [cols |-> cols, rows |-> [i \in 1..Len(rows) |-> Restrict(rows[i], cols)]]

\* Reports of differing schemas: the date column as named, padded, absent,
\* or holding text that is no date; one, two or none of the target
\* columns; all the metrics or only those of the position tracker.
SchemaRows(badDate) ==
    << Row(Str("C1"), <<Str("K1"), Str("Cat1"), Str("A1")>>, Str("2024-03-02"),
           Num(2000), Num(12346), Num(1000000), Num(300000), Num(0), Num(0)),
       Row(Str("C2"), <<Str("K2"), Str("Cat1"), Str("A1")>>,
           IF badDate THEN Str("abc") ELSE Str("2024-03-01"),
           Str("abc"), Num(20000), NaN, Num(100000), Num(50000), Num(500)) >>

DateVariants == {"named", "padded", "absent", "unparseable"}

TargetVariants ==
    {{"Keyword"}, {"Category Name"}, {"Asset"}, {}, {"Keyword", "Category Name"}}

MetricVariants == {metric_set, SeqToSet(pivot_metrics)}

SchemaFrame(dv, tv, mv) ==
    Frame({"Campaign Name"} \cup tv \cup mv \cup
              (CASE dv = "padded" -> {" date_ist "}
                 [] dv = "absent" -> {}
                 [] OTHER -> {"date_ist"}),
          SchemaRows(dv = "unparseable"))

SchemaFrames ==
    {SchemaFrame(dv, tv, mv) : dv \in DateVariants, tv \in TargetVariants, mv \in MetricVariants}
    \cup {Frame({"Keyword", "date_ist"} \cup metric_set, SchemaRows(FALSE))}

KeywordReport == SchemaFrame("named", {"Keyword"}, metric_set)
CategoryReport == SchemaFrame("named", {"Category Name"}, metric_set)

SchemaFiles ==
    {Csv(TRUE, df) : df \in SchemaFrames}
    \cup {Csv(FALSE, EmptyFrame)}
    \cup {Xlsx(FALSE, <<BadSheet>>),
          Xlsx(TRUE, <<Sheet(KeywordReport), Sheet(CategoryReport)>>),
          Xlsx(TRUE, <<Sheet(KeywordReport), BadSheet>>),
          Xlsx(TRUE, <<BadSheet, Sheet(CategoryReport)>>)}

NoScores == [c \in {} |-> 0]

\* Runs over reports of differing schemas and files that fail to read.
Init ==
    /\ uploaded_files \in UNION {[1..n -> SchemaFiles] : n \in 1..MaxFiles}
    /\ perf_roas_threshold = 1400
    /\ bid_roas_threshold = 1800
    /\ min_spend_waste = 200000
    /\ search_query = ""
    /\ scores = NoScores
    /\ Start

Spec == Init /\ [][Next]_vars

\* Rows of one full report: two dates, duplicates of a day, text and blank
\* metric cells, groups with and without sales or spend.
DataRows ==
    { Row(Str("C1"), <<Str("K1"), NaN, NaN>>, Str("2024-03-01"),
          Num(2000), Num(12346), Num(1000000), Num(100000), Num(50000), Num(500)),
      Row(Str("C1"), <<Str("K1"), NaN, NaN>>, Str("2024-03-02"),
          Num(4000), Str("abc"), NaN, Num(100000), Num(0), Num(0)),
      Row(Str("C1"), <<Str("K1"), NaN, NaN>>, Str("2024-03-02"),
          Num(6000), Num(8000), Str("7"), Num(0), Num(0), Str("12.344")),
      Row(Str("C2"), <<Str("K1"), NaN, NaN>>, Str("2024-03-01"),
          Str("abc"), Num(20000), Num(500000), Num(300000), Num(100000), Num(333)),
      Row(Str("C2"), <<Str("K2"), NaN, NaN>>, Str("2024-03-04"),
          Num(1000), Num(30125), Num(200000), Num(300000), Num(0), NaN),
      Row(Str("C1"), <<Str("K2"), NaN, NaN>>, Str("2024-03-01"),
          NaN, Num(15000), Num(100000), Num(0), Num(50000), Num(2500)) }

DataCols == {"Campaign Name", "Keyword", "date_ist"} \cup metric_set

\* Settings of the performance slider and of the waste floor: the slider
\* at its lowest and at its default, the floor at its default and at 0.
ThresholdChoices == {<<500, 200000>>, <<1400, 200000>>, <<1400, 0>>}

\* Runs over one full report whose rows vary.
InitData ==
    /\ \E rows \in UNION {[1..n -> DataRows] : n \in 1..MaxRows} :
           uploaded_files = <<Csv(TRUE, Frame(DataCols, rows))>>
    /\ \E t \in ThresholdChoices : perf_roas_threshold = t[1] /\ min_spend_waste = t[2]
    /\ bid_roas_threshold = 1800
    /\ search_query = ""
    /\ scores = NoScores
    /\ Start

SpecData == InitData /\ [][Next]_vars

CampName ==
    << "Promo01", "Promo02", "Promo03", "Promo04", "Promo05", "Promo06",
       "Promo07", "Promo08", "Promo09", "Promo10", "Promo11", "Promo12",
       "Promo13" >>

\* A report of n campaigns, the last name first, one campaign twice and
\* one row without a campaign.
CampaignRows(n) ==
    [i \in 1..(n + 2) |->
        Row(IF i = n + 2 THEN NaN ELSE IF i = n + 1 THEN Str(CampName[1])
                ELSE Str(CampName[n + 1 - i]),
            <<Str("K1"), NaN, NaN>>, Str("2024-03-01"),
            Num(2000), Num(10000), Num(1000000), Num(100000), Num(50000), Num(500))]

ScoreChoices == {40, 45, 46, 90}

\* The scores of a query: the last three names score freely around the
\* cutoff, the names before them 60.
ScoreTables(n) ==
    {[i \in 1..n |-> IF i > n - 3 THEN free[n + 1 - i] ELSE 60] :
        free \in [1..3 -> ScoreChoices]}

\* Runs over one report of many campaigns and a search query.
InitSearch ==
    /\ \E n \in 1..MaxCampaigns :
          /\ uploaded_files = <<Csv(TRUE, Frame(DataCols, CampaignRows(n)))>>
          /\ \/ search_query = "" /\ scores = NoScores
             \/ /\ search_query = "promo"
                /\ \E t \in ScoreTables(n) : scores = [c \in SeqToSet(SubSeq(CampName, 1, n)) |-> t[StrOrd(c) - StrOrd(CampName[1]) + 1]]
    /\ perf_roas_threshold = 1400
    /\ bid_roas_threshold = 1800
    /\ min_spend_waste = 200000
    /\ Start

SpecSearch == InitSearch /\ [][Next]_vars

-----------------------------------------------------------------------------
(* Properties *)

\* The rows as the files held them, in the order of the consolidated frame.
RawRows == RowsOf(all_dfs)

\* The columns of the consolidated input, trimmed.
ConsolidatedColumns == {StripName(c) : c \in UNION {all_dfs[i].cols : i \in 1..Len(all_dfs)}}

Ingested == pc \notin {"read", "consolidate"} /\ all_dfs # <<>>

EngineOutputs == {"records", "pivot", "weekly", "perf", "waste", "bids"}

\* C1: an input without the date column date_ist fails at ingestion with a
\* schema error, before any engine output: no canonical records, no pivot
\* matrix, no weekly trend, no segment bucket.
C1_MissingDateFailsIngestion ==
    (Ingested /\ "date_ist" \notin ConsolidatedColumns)
        => (pc = "raised" /\ produced \cap EngineOutputs = {})

\* The first of Keyword, Category Name, Asset the row's own report has.
RowTarget(r) ==
    IF "Keyword" \in DOMAIN r THEN r["Keyword"]
    ELSE IF "Category Name" \in DOMAIN r THEN r["Category Name"]
    ELSE IF "Asset" \in DOMAIN r THEN r["Asset"]
    ELSE Str("N/A")

\* C4: the target of every row, whatever file it comes from, is its value
\* in the first column it has among Keyword, Category Name, Asset, and
\* "N/A" when it has none; a row with a Category Name or an Asset never
\* has an empty target.
C4_TargetResolvedPerRow ==
    "records" \in produced =>
        \A i \in 1..Len(master_df.rows) :
            /\ master_df.rows[i]["Target"] = RowTarget(RawRows[i])
            /\ ~IsNull(master_df.rows[i]["Target"])

RECURSIVE FramesOfParsingFiles(_)
FramesOfParsingFiles(files) ==
    IF files = <<>> THEN <<>>
    ELSE (IF FileFails(Head(files)) THEN <<>>
          ELSE [i \in 1..Len(Head(files).sheets) |-> Head(files).sheets[i].df])
         \o FramesOfParsingFiles(Tail(files))

\* C5: a file that fails to parse is skipped with a diagnostic and
\* contributes no rows, a file that parses contributes every sheet, and
\* when every file fails the run produces nothing and raises nothing.
C5_FailingFilesContributeNothing ==
    pc # "read" =>
        /\ all_dfs = FramesOfParsingFiles(uploaded_files)
        /\ SeqToSet(diagnostics) = {i \in 1..Len(uploaded_files) : FileFails(uploaded_files[i])}
        /\ (\A i \in 1..Len(uploaded_files) : FileFails(uploaded_files[i]))
              => (produced = {} /\ error = "")

optional_metrics == {"Estimated Budget Consumed", "Direct Sales", "Direct RoAS"}

\* C6: an input with the date and campaign columns that lacks optional
\* metric columns (spend, sales, roas) never raises: every later stage
\* completes.
C6_MissingOptionalMetricsNeverRaise ==
    (/\ Ingested
     /\ ~DateConversionRaises(all_dfs)
     /\ {"date_ist", "Campaign Name"} \cup SeqToSet(pivot_metrics) \subseteq ConsolidatedColumns
     /\ \E c \in optional_metrics : c \notin ConsolidatedColumns)
        => error = ""

RawCell(i, c) == IF c \in DOMAIN RawRows[i] THEN RawRows[i][c] ELSE NaN

Abs(x) == IF x < 0 THEN -x ELSE x

\* C7: a metric value that is missing or does not read as a number is 0
\* after normalization, never an error and never the original text; a
\* value that reads as a number is kept, rounded to 2 decimals.
C7_UnparseableMetricsBecomeZero ==
    "records" \in produced =>
        \A i \in 1..Len(master_df.rows) : \A c \in metric_set \cap master_df.cols :
            LET v == master_df.rows[i][c]
                t == ToNumeric(RawCell(i, c))
            IN  /\ v.k = "num"
                /\ v.n % 10 = 0
                /\ IsNull(t) => v.n = 0
                /\ ~IsNull(t) => 2 * Abs(v.n - t.n) <= 10

C7_Witness ==
    /\ "records" \in produced
    /\ error = ""
    /\ \E i \in 1..Len(master_df.rows) :
          /\ RawCell(i, "CPM") = Str("abc") /\ master_df.rows[i]["CPM"] = Num(0)
          /\ RawCell(i, "Impressions") = NaN /\ master_df.rows[i]["Impressions"] = Num(0)
    /\ \E i \in 1..Len(master_df.rows) :
          RawCell(i, "CPM") = Num(12346) /\ master_df.rows[i]["CPM"] = Num(12350)

InTable(tbl, g) ==
    \E i \in 1..Len(tbl) : tbl[i].target = g.target /\ tbl[i].campaign = g.campaign

\* C3: a (campaign, target) group is in at most one of TopPerformers
\* (roas >= perf_roas), Underperformers (0 < roas < perf_roas) and the
\* zero-sales groups (sales sum 0), of which the Waste Audit holds those
\* with spend > min_waste_spend; roas is sales / spend, a spend of 0 taken as 1.
C3_BucketsExclusive ==
    /\ "perf" \in produced =>
          \A k \in 1..Len(summary) :
              LET g == summary[k]
                  den == IF g.spend = 0 THEN 1000 ELSE g.spend
              IN  /\ 2 * Abs(g.roas * den - 1000 * g.sales) <= 10 * den
                  /\ ~(InTable(healthy, g) /\ InTable(below, g))
                  /\ g.sales = 0 => ~InTable(healthy, g) /\ ~InTable(below, g)
                  /\ InTable(healthy, g) => g.roas >= perf_roas_threshold
                  /\ InTable(below, g) => g.roas > 0 /\ g.roas < perf_roas_threshold
    /\ "waste" \in produced =>
          \A k \in 1..Len(waste) :
              /\ waste[k].sales = 0
              /\ waste[k].spend > min_spend_waste
              /\ ~InTable(healthy, waste[k]) /\ ~InTable(below, waste[k])
              /\ InTable(summary, waste[k])

C3_Witness ==
    /\ "waste" \in produced
    /\ healthy # <<>>
    /\ below # <<>>
    /\ waste # <<>>

GroupLabel(g) == <<g.target, g.campaign>>

BelowMembers ==
    \A k \in 1..Len(summary) :
        InTable(below, summary[k])
            <=> (summary[k].roas > 0 /\ summary[k].roas < perf_roas_threshold)

declared_metrics == <<"Most Viewed Position", "CPM", "Impressions">>
alphabetical_metrics == <<"CPM", "Impressions", "Most Viewed Position">>

IndexIn(seq, x) == CHOOSE i \in 1..Len(seq) : seq[i] = x

\* Columns (date, metric) in date-major order, the metrics of a date in the
\* order of metricOrder.
DateMajor(cols, metricOrder) ==
    \A i, j \in 1..Len(cols) :
        i < j => \/ StrLess(cols[i][1], cols[j][1])
                 \/ /\ cols[i][1] = cols[j][1]
                    /\ IndexIn(metricOrder, cols[i][2]) < IndexIn(metricOrder, cols[j][2])

\* The dates of the rows the pivot groups.
PlotDates ==
    {plot_df.rows[i]["date_str"].s :
        i \in {j \in 1..Len(plot_df.rows) :
                  HasKeys(plot_df.rows[j], <<"Campaign Name", "Target", "date_str">>)}}

\* C2 (as stated): the pivot columns are date-major, and within a date in
\* the order position, cpm, impressions, whatever the order of the rows.
C2_ColumnsDateMajorDeclaredOrder ==
    "pivot" \in produced => DateMajor(pivot_df.columns, declared_metrics)

\* C2 (amended): the pivot columns are date-major, and within a date in the
\* alphabetical order of the metric names: CPM, Impressions, Most Viewed
\* Position; every date of the rows has the three, whatever the row order.
C2_ColumnsDateMajorAlphabetical ==
    "pivot" \in produced =>
        /\ DateMajor(pivot_df.columns, alphabetical_metrics)
        /\ SeqToSet(pivot_df.columns) = PlotDates \X SeqToSet(alphabetical_metrics)

C2_Witness ==
    /\ "pivot" \in produced
    /\ Len(pivot_df.columns) >= 6
    /\ \E i, j \in 1..Len(plot_df.rows) :
          i < j /\ StrLess(plot_df.rows[j]["date_str"].s, plot_df.rows[i]["date_str"].s)

\* The rows of plot_df of one pivot cell, by their position.
CellRows(rl, d) ==
    {i \in 1..Len(plot_df.rows) :
        /\ plot_df.rows[i]["Campaign Name"] = Str(rl[1])
        /\ plot_df.rows[i]["Target"] = Str(rl[2])
        /\ plot_df.rows[i]["date_str"] = Str(d)}

RECURSIVE SumOver(_, _)
SumOver(S, c) ==
    IF S = {} THEN 0
    ELSE LET i == CHOOSE x \in S : TRUE
         IN  plot_df.rows[i][c].n + SumOver(S \ {i}, c)

\* The mean of column c over the rows S, to 2 decimals.
MeanOver(S, c) == Num(10 * RoundHalfEven(SumOver(S, c), 10 * Cardinality(S)))

\* C10 (as stated): duplicates of a (campaign, target, date) are folded by
\* the mean: positions 2, 4, 6 on D1, D2, D2 give 5.0 in the D2 cell and 2
\* in the D1 cell, whatever the order; a (group, date) without record is an
\* absent cell.
C10_CellIsMeanOfDuplicates ==
    "pivot" \in produced =>
        \A rl \in SeqToSet(pivot_df.index) : \A cl \in SeqToSet(pivot_df.columns) :
            pivot_df.cell[<<rl, cl>>] =
                IF CellRows(rl, cl[1]) = {} THEN NaN
                ELSE MeanOver(CellRows(rl, cl[1]), cl[2])

Min(S) == CHOOSE x \in S : \A y \in S : x <= y

\* C10 (amended): duplicates of a (campaign, target, date) are folded by
\* keeping the first in input order: positions 2, 4, 6 on D1, D2, D2 give 4
\* in the D2 cell and 2 in the D1 cell; a (group, date) without record is
\* an absent cell, not 0.
C10_CellIsFirstOfDuplicates ==
    "pivot" \in produced =>
        \A rl \in SeqToSet(pivot_df.index) : \A cl \in SeqToSet(pivot_df.columns) :
            pivot_df.cell[<<rl, cl>>] =
                IF CellRows(rl, cl[1]) = {} THEN NaN
                ELSE plot_df.rows[Min(CellRows(rl, cl[1]))][cl[2]]

C10_Witness ==
    /\ "pivot" \in produced
    /\ Len(plot_df.rows) = 3
    /\ \A i \in 1..3 : plot_df.rows[i]["Campaign Name"] = Str("C1")
                       /\ plot_df.rows[i]["Target"] = Str("K1")
    /\ plot_df.rows[1]["date_str"] = Str("2024-03-01")
    /\ plot_df.rows[2]["date_str"] = Str("2024-03-02")
    /\ plot_df.rows[3]["date_str"] = Str("2024-03-02")
    /\ plot_df.rows[1]["Most Viewed Position"] = Num(2000)
    /\ plot_df.rows[2]["Most Viewed Position"] = Num(4000)
    /\ plot_df.rows[3]["Most Viewed Position"] = Num(6000)
    /\ pivot_df.cell[<<(<<"C1", "K1">>), (<<"2024-03-01", "Most Viewed Position">>)>>] = Num(2000)
    /\ pivot_df.cell[<<(<<"C1", "K1">>), (<<"2024-03-02", "Most Viewed Position">>)>>] = Num(4000)

\* The distinct campaign names of the consolidated frame.
CampaignNames ==
    {master_df.rows[i]["Campaign Name"].s :
        i \in {j \in 1..Len(master_df.rows) : ~IsNull(master_df.rows[j]["Campaign Name"])}}

\* Fewer than 10 candidates rank before c: a better score, or the same
\* score and an earlier place in the sorted list.
InTopTen(c) ==
    Cardinality({d \in CampaignNames :
                    \/ scores[d] > scores[c]
                    \/ scores[d] = scores[c] /\ StrLess(d, c)}) < 10

Offered == Tail(campaign_options)

\* C8: with a query, the campaigns offered are those of the 10 best scored
\* candidates that score above 45, best score first; without a query they
\* are all the distinct campaign names; 'All Campaigns' always comes first.
C8_CampaignOptions ==
    "options" \in produced =>
        /\ campaign_options[1] = "All Campaigns"
        /\ Cardinality(SeqToSet(Offered)) = Len(Offered)
        /\ search_query = "" => SeqToSet(Offered) = CampaignNames
        /\ search_query # "" =>
              /\ SeqToSet(Offered) = {c \in CampaignNames : InTopTen(c) /\ scores[c] > 45}
              /\ \A i, j \in 1..Len(Offered) :
                    i < j => scores[Offered[i]] >= scores[Offered[j]]

C8_Witness ==
    /\ "options" \in produced
    /\ search_query # ""
    /\ Len(Offered) = 10
    /\ \E c \in CampaignNames : scores[c] = 45 /\ c \notin SeqToSet(Offered)
    /\ \E c \in CampaignNames : scores[c] > 45 /\ c \notin SeqToSet(Offered)
    /\ \E i, j \in 1..Len(Offered) : scores[Offered[i]] > scores[Offered[j]]

====
